---- MODULE Spec2Model ----
(***************************************************************************)
(* ollama-models.py: resolve model references to manifests, compute each   *)
(* manifest's verified file set, then list / copy / tar / zip it.          *)
(*                                                                         *)
(* A Python str is modelled as a sequence of tokens.  A token is one       *)
(* character ("/", ":", ".", "-", "a", ...) or a run of characters that    *)
(* the program never looks inside ("manifests", "registry.ollama.ai").     *)
(* The functions of posixpath are string functions and are modelled as     *)
(* such; the file system is a tree that the operating system walks.        *)
(***************************************************************************)
EXTENDS Integers, Sequences, FiniteSets, TLC

----------------------------------------------------------------------------
(* Bounds of the model *)

MaxRefs == 2

MaxLayers == 2

MaxSize == 2

----------------------------------------------------------------------------
(* str helpers *)

StartsWithSep(s) == Len(s) > 0 /\ s[1] = "/"

EndsWithSep(s) == Len(s) > 0 /\ s[Len(s)] = "/"

\* str.rfind('/') + 1: the 1-based place of the last separator, 0 when none
RFindSep(s) ==
    LET I == {k \in 1..Len(s) : s[k] = "/"}
    IN  IF I = {} THEN 0 ELSE CHOOSE k \in I : \A j \in I : j <= k

\* str.find('/') + 1
FindSep(s) ==
    LET I == {k \in 1..Len(s) : s[k] = "/"}
    IN  IF I = {} THEN 0 ELSE CHOOSE k \in I : \A j \in I : k <= j

AllSep(s) == \A k \in 1..Len(s) : s[k] = "/"

\* str.rstrip('/')
RStripSep(s) ==
    LET I == {k \in 1..Len(s) : s[k] # "/"}
    IN  IF I = {} THEN <<>>
        ELSE SubSeq(s, 1, CHOOSE k \in I : \A j \in I : j <= k)

\* str.split('/')
RECURSIVE Split(_)
Split(s) ==
    LET n == FindSep(s)
    IN  IF n = 0 THEN <<s>>
        ELSE <<SubSeq(s, 1, n - 1)>> \o Split(SubSeq(s, n + 1, Len(s)))

\* '/'.join(comps)
RECURSIVE JoinSep(_)
JoinSep(comps) ==
    IF comps = <<>> THEN <<>>
    ELSE IF Len(comps) = 1 THEN comps[1]
    ELSE comps[1] \o <<"/">> \o JoinSep(Tail(comps))

\* str.replace(':', '-')
ReplaceColon(s) == [k \in 1..Len(s) |-> IF s[k] = ":" THEN "-" ELSE s[k]]

\* [x for x in comps if x]
RECURSIVE NonEmpty(_)
NonEmpty(comps) ==
    IF comps = <<>> THEN <<>>
    ELSE IF comps[1] = <<>> THEN NonEmpty(Tail(comps))
    ELSE <<comps[1]>> \o NonEmpty(Tail(comps))

----------------------------------------------------------------------------
(* posixpath *)

curdir == <<".">>

pardir == <<".", ".">>

isabs(s) == StartsWithSep(s)

\* posixpath.join(a, b)
join(a, b) ==
    IF StartsWithSep(b) THEN b
    ELSE IF a = <<>> \/ EndsWithSep(a) THEN a \o b
    ELSE a \o <<"/">> \o b

\* posixpath.join(a, *p)
RECURSIVE joinAll(_, _)
joinAll(a, p) ==
    IF p = <<>> THEN a ELSE joinAll(join(a, p[1]), Tail(p))

\* posixpath.dirname
dirname(p) ==
    LET head == SubSeq(p, 1, RFindSep(p))
    IN  IF head # <<>> /\ ~AllSep(head) THEN RStripSep(head) ELSE head

\* normpath's number of leading slashes kept: 0, 1, or 2 for exactly two
InitialSlashes(path) ==
    IF ~StartsWithSep(path) THEN 0
    ELSE IF Len(path) >= 2 /\ path[2] = "/" /\ ~(Len(path) >= 3 /\ path[3] = "/")
         THEN 2
    ELSE 1

\* normpath's loop over the components
RECURSIVE NormComps(_, _, _)
NormComps(comps, new, slashes) ==
    IF comps = <<>> THEN new
    ELSE LET comp == comps[1]
             rest == Tail(comps)
         IN  IF comp = <<>> \/ comp = curdir
               THEN NormComps(rest, new, slashes)
             ELSE IF \/ comp # pardir
                     \/ (slashes = 0 /\ new = <<>>)
                     \/ (new # <<>> /\ new[Len(new)] = pardir)
               THEN NormComps(rest, Append(new, comp), slashes)
             ELSE IF new # <<>>
               THEN NormComps(rest, SubSeq(new, 1, Len(new) - 1), slashes)
             ELSE NormComps(rest, new, slashes)

\* posixpath.normpath
normpath(path) ==
    IF path = <<>> THEN curdir
    ELSE LET slashes == InitialSlashes(path)
             body == JoinSep(NormComps(Split(path), <<>>, slashes))
             res == [k \in 1..slashes |-> "/"] \o body
         IN  IF res = <<>> THEN curdir ELSE res

\* os.getcwd(): the directory the program is started in
getcwd == <<"/", "w">>

\* posixpath.abspath
abspath(path) ==
    normpath(IF isabs(path) THEN path ELSE join(getcwd, path))

\* os.path.commonprefix of two lists: the length of it
RECURSIVE CommonLen(_, _)
CommonLen(a, b) ==
    IF a = <<>> \/ b = <<>> \/ a[1] # b[1] THEN 0
    ELSE 1 + CommonLen(Tail(a), Tail(b))

\* posixpath.relpath(path, start), path not empty
relpath(path, start) ==
    LET start_list == NonEmpty(Split(abspath(start)))
        path_list == NonEmpty(Split(abspath(path)))
        n == CommonLen(start_list, path_list)
        rel_list == [k \in 1..(Len(start_list) - n) |-> pardir]
                      \o SubSeq(path_list, n + 1, Len(path_list))
    IN  IF rel_list = <<>> THEN curdir
        ELSE joinAll(rel_list[1], Tail(rel_list))

----------------------------------------------------------------------------
(* re: model_pattern *)

\* tokens that start with [a-zA-Z0-9] and continue in [a-zA-Z0-9._-]
AlnumStart ==
    {"a", "b", "c", "m", "s", "w", "S", "T",
     "manifests", "registry.ollama.ai", "library", "blobs"}

\* tokens made of [a-zA-Z0-9._-] only
InClass == AlnumStart \cup {".", "_", "-"}

\* [a-zA-Z0-9][a-zA-Z0-9._-]*
NamePart(s) ==
    /\ Len(s) >= 1
    /\ s[1] \in AlnumStart
    /\ \A k \in 2..Len(s) : s[k] \in InClass

\* model_pattern.match(s): the set holding the match's groups, empty for None.
\* '$' matches at the end of the string and before one trailing newline.
model_pattern_match(s) ==
    LET t == IF Len(s) > 0 /\ s[Len(s)] = "\n"
             THEN SubSeq(s, 1, Len(s) - 1) ELSE s
    IN  {g \in {[name |-> SubSeq(t, 1, k - 1), tag |-> SubSeq(t, k + 1, Len(t))] :
                  k \in {j \in 1..Len(t) : t[j] = ":"}} :
            NamePart(g.name) /\ NamePart(g.tag)}

----------------------------------------------------------------------------
(* The environment: the file system and the command line *)

VARIABLES
    disk,            \* the regular files, each the list of its path's components
    json,            \* disk file -> the Manifest it holds (other files: no JSON)
    values,          \* args.model
    models_dir,      \* args.models_dir
    command,         \* args.command ("data": get_ollama_manifests_data called directly)
    target           \* args.to or args.archive

(* The program *)
VARIABLES
    pc,              \* where the invocation is
    pos,             \* position of the running loop over values / manifests / manifests_data
    fpos,            \* position in manifest_data.files while emitting
    yielded,         \* what gen() has yielded so far inside list(gen())
    manifests,       \* what resolve_manifests returned
    built,           \* the list get_ollama_manifests_data's comprehension is building
    manifests_data,  \* what get_ollama_manifests_data returned
    archive,         \* the archive writer: "none", "open", "closed"
    out,             \* the output actions so far, in order
    error            \* the exception that ended the invocation

env == <<disk, json, values, models_dir, command, target>>

vars == <<disk, json, values, models_dir, command, target,
          pc, pos, fpos, yielded, manifests, built, manifests_data, archive, out, error>>

----------------------------------------------------------------------------
(* The operating system's view of a path *)

\* p is a[:n] for some n
IsPrefix(p, a) == Len(p) <= Len(a) /\ \A k \in 1..Len(p) : p[k] = a[k]

\* the directories: every proper ancestor of a file, and the working directory
\* with its ancestors
IsDir(p) ==
    \/ IsPrefix(p, NonEmpty(Split(getcwd)))
    \/ \E q \in disk : Len(p) < Len(q) /\ IsPrefix(p, q)

\* Path resolution from directory cur along comps: the set holding what the
\* path names, empty when a component is taken from what is no directory.
RECURSIVE Walk(_, _)
Walk(cur, comps) ==
    IF comps = <<>> THEN {cur}
    ELSE IF ~IsDir(cur) THEN {}
    ELSE LET comp == comps[1]
         IN  IF comp = <<>> \/ comp = curdir THEN Walk(cur, Tail(comps))
             ELSE IF comp = pardir
               THEN Walk(SubSeq(cur, 1, Len(cur) - 1), Tail(comps))
             ELSE Walk(Append(cur, comp), Tail(comps))

\* os.stat(path) restricted to regular files: the file the path names, if any
StatFile(path) ==
    IF path = <<>> THEN {}
    ELSE Walk(IF isabs(path) THEN <<>> ELSE NonEmpty(Split(getcwd)), Split(path))
           \cap disk

\* os.path.isfile
isfile(path) == StatFile(path) # {}

----------------------------------------------------------------------------
(* Exceptions and results *)

NoError == [exc |-> "", msg |-> "", ref |-> <<>>, path |-> <<>>]

\* KnownError(f"...") and the exceptions the program does not catch
Raised(exc, msg, ref, path) == [exc |-> exc, msg |-> msg, ref |-> ref, path |-> path]

NoData == [root |-> <<>>, files |-> <<>>, size |-> 0]

\* class ManifestData(NamedTuple)
ManifestData(root, files, size) == [root |-> root, files |-> files, size |-> size]

NoManifest == [config |-> [digest |-> <<>>, size |-> 0], layers |-> <<>>]

----------------------------------------------------------------------------
(* get_ollama_manifest_data *)

\* open(manifest_path) and json.load: the Manifest, or the exception raised
read_ollama_manifest(manifest_path) ==
    LET st == StatFile(manifest_path)
    IN  IF st = {} THEN [exc |-> "OSError", data |-> NoManifest]
        ELSE LET file == CHOOSE x \in st : TRUE
             IN  IF file \in DOMAIN json
                   THEN [exc |-> "", data |-> json[file]]
                 ELSE [exc |-> "ValueError", data |-> NoManifest]

\* mutant: the root taken from the configured store directory
ollama_root_mut(manifest_absolute_path) == models_dir

\* root = dirname(dirname(dirname(dirname(dirname(manifest_absolute_path)))))
ollama_root(manifest_absolute_path) ==
    dirname(dirname(dirname(dirname(dirname(manifest_absolute_path)))))

\* path.join('blobs', digest.replace(':', '-'))
blob_path(digest) == join(<<"blobs">>, ReplaceColon(digest))

\* mutant: the layers' digests first, the config's last
manifest_digests_mut(manifest_data) ==
    [k \in 1..Len(manifest_data.layers) |-> manifest_data.layers[k].digest]
      \o <<manifest_data.config.digest>>

\* the digests list: config first, then the layers in manifest order
manifest_digests(manifest_data) ==
    <<manifest_data.config.digest>>
      \o [k \in 1..Len(manifest_data.layers) |-> manifest_data.layers[k].digest]

\* the files list: the manifest relative to root, then the blob of every digest
manifest_files(manifest_absolute_path, root, manifest_data) ==
    LET digests == manifest_digests(manifest_data)
    IN  <<relpath(manifest_absolute_path, root)>>
          \o [k \in 1..Len(digests) |-> blob_path(digests[k])]

\* sum(layer["size"] for layer in layers), summed from the left from 0
RECURSIVE SumSizes(_, _)
SumSizes(layers, acc) ==
    IF layers = <<>> THEN acc ELSE SumSizes(Tail(layers), acc + layers[1].size)

\* mutant: the config's size left out
manifest_size_mut(manifest_data) == SumSizes(manifest_data.layers, 0)

\* size = sum(layer sizes) + config size
manifest_size(manifest_data) ==
    SumSizes(manifest_data.layers, 0) + manifest_data.config.size

\* mutant: the existence check left out
missing_files_none(root, files) == {}

\* mutant: only the first entry, the manifest, is checked
missing_files_first(root, files) ==
    {k \in 1..Len(files) : k = 1 /\ ~isfile(join(root, files[k]))}

\* the loop over files: the places of the entries that are no regular file
missing_files(root, files) ==
    {k \in 1..Len(files) : ~isfile(join(root, files[k]))}

\* get_ollama_manifest_data(manifest): [err, data]
get_ollama_manifest_data(manifest) ==
    LET manifest_absolute_path == abspath(manifest)
        root == ollama_root(manifest_absolute_path)
        rd == read_ollama_manifest(manifest_absolute_path)
    IN  IF rd.exc # ""
          THEN [err |-> Raised(rd.exc, "", <<>>, manifest_absolute_path), data |-> NoData]
        ELSE LET files == manifest_files(manifest_absolute_path, root, rd.data)
                 size == manifest_size(rd.data)
                 missing == missing_files(root, files)
             IN  IF missing # {}
                   THEN LET k == CHOOSE m \in missing : \A n \in missing : m <= n
                        IN  [err |-> Raised("KnownError", "File not found", <<>>,
                                            join(root, files[k])),
                             data |-> NoData]
                 ELSE [err |-> NoError, data |-> ManifestData(root, files, size)]

\* mutant: raises only when there is no root at all
check_single_ollama_root_mut(data) ==
    Cardinality({data[k].root : k \in 1..Len(data)}) = 0

\* check_single_ollama_root: TRUE when it raises
check_single_ollama_root(data) ==
    Cardinality({data[k].root : k \in 1..Len(data)}) # 1

----------------------------------------------------------------------------
(* resolve_manifests *)

\* 'manifests', 'registry.ollama.ai', 'library'
LibraryDir == <<<<"manifests">>, <<"registry.ollama.ai">>, <<"library">>>>

\* mutant: an existing file of that name wins over the pattern
is_model_mut(model_or_manifest) ==
    model_pattern_match(model_or_manifest) # {} /\ ~isfile(model_or_manifest)

\* whether gen() takes the model branch for this value
is_model(model_or_manifest) == model_pattern_match(model_or_manifest) # {}

\* mutant: a literal path is yielded without looking for the file
resolve_one_mut(model_or_manifest, dir) ==
    IF model_pattern_match(model_or_manifest) # {}
      THEN LET match == CHOOSE g \in model_pattern_match(model_or_manifest) : TRUE
               manifest == joinAll(dir, <<<<"manifests">>, <<"registry.ollama.ai">>,
                                          <<"library">>, match.name, match.tag>>)
           IN  IF isfile(manifest)
                 THEN [err |-> NoError, manifest |-> manifest]
               ELSE [err |-> Raised("KnownError", "manifest's not found",
                                    model_or_manifest, manifest),
                     manifest |-> <<>>]
    ELSE [err |-> NoError, manifest |-> model_or_manifest]

\* one turn of gen()'s loop: [err, manifest]
resolve_one(model_or_manifest, dir) ==
    IF is_model(model_or_manifest)
      THEN LET match == CHOOSE g \in model_pattern_match(model_or_manifest) : TRUE
               manifest == joinAll(dir, LibraryDir \o <<match.name, match.tag>>)
           IN  IF isfile(manifest)
                 THEN [err |-> NoError, manifest |-> manifest]
               ELSE [err |-> Raised("KnownError", "manifest's not found",
                                    model_or_manifest, manifest),
                     manifest |-> <<>>]
    ELSE IF isfile(model_or_manifest)
      THEN [err |-> NoError, manifest |-> model_or_manifest]
    ELSE [err |-> Raised("KnownError", "File not found", <<>>, model_or_manifest),
          manifest |-> <<>>]

----------------------------------------------------------------------------
(* The commands *)

\* what one turn of a command's inner loop does with (manifest_data, file)
output_action(cmd, data, file) ==
    IF cmd = "list"
      THEN [op |-> "print", src |-> <<>>, name |-> file, dst |-> <<>>]
    ELSE IF cmd = "copy"
      THEN [op |-> "copy", src |-> join(data.root, file), name |-> file,
            dst |-> join(target, file)]
    ELSE [op |-> cmd, src |-> join(data.root, file), name |-> file, dst |-> target]

\* where a command goes once get_ollama_manifests_data has returned
after_build(cmd) ==
    IF cmd = "list" THEN "check"
    ELSE IF cmd = "copy" THEN "emit"
    ELSE IF cmd \in {"tar", "zip"} THEN "open"
    ELSE "done"

\* gen(): one value of values
ResolveStep ==
    /\ pc = "resolve"
    /\ pos <= Len(values)
    /\ LET r == resolve_one(values[pos], models_dir)
       IN  IF r.err = NoError
             THEN /\ yielded' = Append(yielded, r.manifest)
                  /\ pos' = pos + 1
                  /\ UNCHANGED <<pc, error>>
           ELSE /\ pc' = "failed"
                /\ error' = r.err
                /\ UNCHANGED <<yielded, pos>>
    /\ UNCHANGED <<env, fpos, manifests, built, manifests_data, archive, out>>

\* return list(gen()), and main calls the command with the result
ResolveReturn ==
    /\ pc = "resolve"
    /\ pos > Len(values)
    /\ manifests' = yielded
    /\ pc' = "build"
    /\ pos' = 1
    /\ UNCHANGED <<env, fpos, yielded, built, manifests_data, archive, out, error>>

\* get_ollama_manifests_data: one manifest of the comprehension
BuildStep ==
    /\ pc = "build"
    /\ pos <= Len(manifests)
    /\ LET r == get_ollama_manifest_data(manifests[pos])
       IN  IF r.err = NoError
             THEN /\ built' = Append(built, r.data)
                  /\ pos' = pos + 1
                  /\ UNCHANGED <<pc, error>>
           ELSE /\ pc' = "failed"
                /\ error' = r.err
                /\ UNCHANGED <<built, pos>>
    /\ UNCHANGED <<env, fpos, yielded, manifests, manifests_data, archive, out>>

\* get_ollama_manifests_data returns
BuildReturn ==
    /\ pc = "build"
    /\ pos > Len(manifests)
    /\ manifests_data' = built
    /\ pc' = after_build(command)
    /\ pos' = 1
    /\ fpos' = 1
    /\ UNCHANGED <<env, yielded, manifests, built, archive, out, error>>

\* list_command: check_single_ollama_root(manifests_data)
CheckSingleRoot ==
    /\ pc = "check"
    /\ IF check_single_ollama_root(manifests_data)
         THEN /\ pc' = "failed"
              /\ error' = Raised("KnownError",
                     "All manifests must be in the same OLLAMA_MODELS directory.",
                     <<>>, <<>>)
       ELSE /\ pc' = "emit"
            /\ UNCHANGED error
    /\ UNCHANGED <<env, pos, fpos, yielded, manifests, built, manifests_data,
                   archive, out>>

\* tar_command / zip_command: the archive is opened for writing
OpenArchive ==
    /\ pc = "open"
    /\ archive' = "open"
    /\ pc' = "emit"
    /\ UNCHANGED <<env, pos, fpos, yielded, manifests, built, manifests_data,
                   out, error>>

\* mutant: the inner loop stops one file short
next_file_mut(data, k, l) ==
    IF l < Len(data[k].files) - 1 THEN <<k, l + 1>> ELSE <<k + 1, 1>>

\* for manifest_data in manifests_data: for file in manifest_data.files:
\* the place after (k, l) in the nested loops
next_file(data, k, l) ==
    IF l < Len(data[k].files) THEN <<k, l + 1>> ELSE <<k + 1, 1>>

\* one turn of the inner loop of list / copy / tar / zip
EmitStep ==
    /\ pc = "emit"
    /\ pos <= Len(manifests_data)
    /\ LET data == manifests_data[pos]
           nxt == next_file(manifests_data, pos, fpos)
       IN  /\ out' = Append(out, output_action(command, data, data.files[fpos]))
           /\ pos' = nxt[1]
           /\ fpos' = nxt[2]
    /\ UNCHANGED <<env, pc, yielded, manifests, built, manifests_data, archive, error>>

\* the loops are over: the with block closes the archive, the command returns
Finish ==
    /\ pc = "emit"
    /\ pos > Len(manifests_data)
    /\ pc' = "done"
    /\ archive' = IF archive = "open" THEN "closed" ELSE archive
    /\ UNCHANGED <<env, pos, fpos, yielded, manifests, built, manifests_data,
                   out, error>>

----------------------------------------------------------------------------
(* The inputs *)

\* all sequences over S of length lo..hi
SeqsOf(S, lo, hi) == UNION {[1..n -> S] : n \in lo..hi}

\* str -> the list of its components, for a normalized absolute path
Comps(path) == NonEmpty(Split(path))

DigestA == <<"s", ":", "a">>

DigestB == <<"s", ":", ":", "b">>

StoreS == <<"/", "S">>

StoreT == <<"/", "T">>

\* <store>/manifests/registry.ollama.ai/library/a/b
ManifestIn(store) == joinAll(store, LibraryDir \o <<<<"a">>, <<"b">>>>)

\* <dir>/blobs/<name>, the name written with '-'
BlobIn(dir, name) == joinAll(dir, <<<<"blobs">>, name>>)

NameA == <<"s", "-", "a">>

NameB == <<"s", "-", "-", "b">>

\* a file named a:b in the working directory
LiteralAB == <<"/", "w", "/", "a", ":", "b">>

ManifestA ==
    [config |-> [digest |-> DigestA, size |-> 1],
     layers |-> <<[digest |-> DigestB, size |-> 2]>>]

ManifestB == [config |-> [digest |-> DigestA, size |-> 2], layers |-> <<>>]

\* the references of the command line
Refs ==
    {<<"a", ":", "b">>,
     <<"a", ":", "b", "\n">>,
     <<".", "/", "a", ":", "b">>,
     ManifestIn(StoreT),
     BlobIn(StoreS, NameB)}

AlwaysOnDisk == {ManifestIn(StoreT), BlobIn(StoreT, NameA), BlobIn(StoreS, NameB)}

MaybeOnDisk ==
    {ManifestIn(StoreS), BlobIn(StoreS, NameA), LiteralAB, BlobIn(<<"/">>, NameA)}

Contents ==
    (Comps(ManifestIn(StoreS)) :> ManifestA)
      @@ (Comps(ManifestIn(StoreT)) :> ManifestB)
      @@ (Comps(LiteralAB) :> ManifestB)

Invocations ==
    {<<"list", <<>>>>, <<"copy", <<"/", "d">>>>,
     <<"tar", <<"/", "o">>>>, <<"zip", <<"-">>>>}

Start ==
    /\ pos = 1
    /\ fpos = 1
    /\ yielded = <<>>
    /\ built = <<>>
    /\ manifests_data = <<>>
    /\ archive = "none"
    /\ out = <<>>
    /\ error = NoError

\* python ollama-models.py <command> --models-dir DIR <ref>...
Init ==
    /\ \E X \in SUBSET MaybeOnDisk :
          /\ disk = {Comps(p) : p \in AlwaysOnDisk \cup X}
          /\ json = [q \in DOMAIN Contents \cap {Comps(p) : p \in AlwaysOnDisk \cup X}
                       |-> Contents[q]]
    /\ values \in SeqsOf(Refs, 1, MaxRefs)
    /\ models_dir \in {StoreS, StoreT}
    /\ \E inv \in Invocations : command = inv[1] /\ target = inv[2]
    /\ pc = "resolve"
    /\ manifests = <<>>
    /\ Start

Next ==
    \/ ResolveStep
    \/ ResolveReturn
    \/ BuildStep
    \/ BuildReturn
    \/ CheckSingleRoot
    \/ OpenArchive
    \/ EmitStep
    \/ Finish

Spec == Init /\ [][Next]_vars

----------------------------------------------------------------------------
(* get_ollama_manifests_data called on one manifest path, on any file system *)

Digests == {DigestA, DigestB}

\* ManifestLayer: digest and size
Layers == [digest : Digests, size : 1..MaxSize]

\* the config entry: its digest is DigestA
ConfigLayers == [digest : {DigestA}, size : 1..MaxSize]

\* Manifest: config and layers
Manifests == [config : ConfigLayers, layers : SeqsOf(Layers, 0, MaxLayers)]

CwdManifest == <<"/", "w", "/", "m">>

\* the manifest paths handed to get_ollama_manifest_data
BuildPaths ==
    {ManifestIn(StoreS),
     joinAll(StoreS, LibraryDir \o <<<<"a">>, pardir, <<"a">>, <<"b">>>>),
     <<"m">>,
     BlobIn(StoreS, NameA)}

BuildAlwaysOnDisk == {CwdManifest}

BuildMaybeOnDisk ==
    {ManifestIn(StoreS),
     BlobIn(StoreS, NameA), BlobIn(StoreS, NameB),
     BlobIn(<<"/">>, NameA), BlobIn(<<"/">>, NameB)}

ManifestFiles == {ManifestIn(StoreS), CwdManifest}

InitBuild ==
    /\ \E X \in SUBSET BuildMaybeOnDisk, m \in Manifests :
          /\ disk = {Comps(p) : p \in BuildAlwaysOnDisk \cup X}
          /\ json = [q \in {Comps(p) : p \in ManifestFiles \cap (BuildAlwaysOnDisk \cup X)}
                       |-> m]
    /\ manifests \in SeqsOf(BuildPaths, 1, 1)
    /\ values = <<>>
    /\ models_dir = StoreS
    /\ command = "data"
    /\ target = <<>>
    /\ pc = "build"
    /\ Start

NextBuild ==
    \/ BuildStep
    \/ BuildReturn

SpecBuild == InitBuild /\ [][NextBuild]_vars

----------------------------------------------------------------------------
(* What the specification says, stated apart from the program's operators *)

\* the blob path of a digest: 'blobs/' and the digest with ':' written '-'
SpecBlobPath(digest) ==
    <<"blobs", "/">> \o [k \in 1..Len(digest) |-> IF digest[k] = ":" THEN "-" ELSE digest[k]]

\* the directory n levels above a normalized absolute path
SpecUp(abs, n) ==
    LET c == Comps(abs)
    IN  <<"/">> \o JoinSep(SubSeq(c, 1, Len(c) - n))

\* the Manifest the file at an absolute path holds; NoManifest when it holds none
HeldManifest(abs) ==
    IF Comps(abs) \in DOMAIN json THEN json[Comps(abs)] ELSE NoManifest

HoldsManifest(abs) == Comps(abs) \in disk /\ Comps(abs) \in DOMAIN json

\* the file list of section 4.4: manifest, config blob, layer blobs in order
SpecFiles(abs, m) ==
    <<SubSeq(abs, Len(SpecUp(abs, 5)) + (IF SpecUp(abs, 5) = <<"/">> THEN 1 ELSE 2), Len(abs))>>
      \o <<SpecBlobPath(m.config.digest)>>
      \o [k \in 1..Len(m.layers) |-> SpecBlobPath(m.layers[k].digest)]

\* the absolute path of entry k of the file list
SpecAbs(abs, m, k) ==
    IF k = 1 THEN abs
    ELSE LET r == SpecUp(abs, 5)
         IN  (IF r = <<"/">> THEN r ELSE r \o <<"/">>) \o SpecFiles(abs, m)[k]

\* the entries of the file list that are no regular file on disk
SpecMissing(abs, m) ==
    {k \in 1..(2 + Len(m.layers)) : Comps(SpecAbs(abs, m, k)) \notin disk}

Least(S) == CHOOSE k \in S : \A j \in S : k <= j

\* the one call of get_ollama_manifest_data has been made
Called == pc \in {"done", "failed"} \/ built # <<>>

\* the path the call was made with, as an absolute path
CalledAbs == abspath(manifests[1])

----------------------------------------------------------------------------
(* C1 *)

\* C1, as claimed: get_ollama_manifest_data returns a FileSet only if every
\* entry of files, joined with root, is a regular file; otherwise it fails
\* with KnownError("File not found: <abs>") naming the first missing entry in
\* file-list order, the manifest being the first entry, and returns nothing.
C1_FirstMissingIsNotFound ==
    Called =>
      /\ built # <<>> =>
           \A k \in 1..Len(built[1].files) :
              isfile(join(built[1].root, built[1].files[k]))
      /\ ~isfile(CalledAbs) =>
           /\ built = <<>>
           /\ error = Raised("KnownError", "File not found", <<>>, CalledAbs)
      /\ (HoldsManifest(CalledAbs) /\ SpecMissing(CalledAbs, HeldManifest(CalledAbs)) # {}) =>
           /\ built = <<>>
           /\ error = Raised("KnownError", "File not found", <<>>,
                 SpecAbs(CalledAbs, HeldManifest(CalledAbs),
                         Least(SpecMissing(CalledAbs, HeldManifest(CalledAbs)))))

\* C1 without the case of a missing manifest (what the code does keep)
C1_WhenManifestReadable ==
    Called =>
      /\ built # <<>> =>
           \A k \in 1..Len(built[1].files) :
              isfile(join(built[1].root, built[1].files[k]))
      /\ (HoldsManifest(CalledAbs) /\ SpecMissing(CalledAbs, HeldManifest(CalledAbs)) # {}) =>
           /\ built = <<>>
           /\ error = Raised("KnownError", "File not found", <<>>,
                 SpecAbs(CalledAbs, HeldManifest(CalledAbs),
                         Least(SpecMissing(CalledAbs, HeldManifest(CalledAbs)))))
      /\ (HoldsManifest(CalledAbs) /\ SpecMissing(CalledAbs, HeldManifest(CalledAbs)) = {}) =>
           built # <<>> /\ error = NoError

----------------------------------------------------------------------------
(* C2 *)

\* C2: for a manifest with n layers the returned files list has length 2 + n;
\* files[0] joined with root is the manifest's absolute path; files[1] is the
\* blob path of config.digest; files[1+i] is the blob path of layer i's digest,
\* in manifest order; a blob path is 'blobs/' and the digest with ':' as '-'.
C2_FilesLayout ==
    built # <<>> =>
      LET m == HeldManifest(CalledAbs)
          n == Len(m.layers)
          files == built[1].files
      IN  /\ HoldsManifest(CalledAbs)
          /\ Len(files) = 2 + n
          /\ join(built[1].root, files[1]) = CalledAbs
          /\ ~isabs(files[1])
          /\ files[2] = SpecBlobPath(m.config.digest)
          /\ \A k \in 1..n : files[2 + k] = SpecBlobPath(m.layers[k].digest)

\* a FileSet was returned for a manifest with two layers of different digests
C2_Witness ==
    /\ built # <<>>
    /\ Len(built[1].files) = 4
    /\ built[1].files[3] # built[1].files[4]
    /\ built[1].files[2] = <<"blobs", "/", "s", "-", "a">>

----------------------------------------------------------------------------
(* C7 *)

\* the sum of the sizes of a set of layer positions
RECURSIVE SpecSum(_, _)
SpecSum(layers, K) ==
    IF K = {} THEN 0
    ELSE LET k == CHOOSE x \in K : TRUE
         IN  layers[k].size + SpecSum(layers, K \ {k})

\* the reorderings of a sequence
Reorderings(seq) ==
    {[k \in 1..Len(seq) |-> seq[b[k]]] :
       b \in {c \in [1..Len(seq) -> 1..Len(seq)] :
                 \A x, y \in 1..Len(seq) : c[x] = c[y] => x = y}}

\* C7: size is config.size plus the sum of the layers' sizes, nothing added
\* for the manifest file itself, and the same for every order of the layers.
C7_SizeIsConfigPlusLayers ==
    built # <<>> =>
      LET m == HeldManifest(CalledAbs)
      IN  /\ built[1].size = m.config.size + SpecSum(m.layers, 1..Len(m.layers))
          /\ \A r \in Reorderings(m.layers) :
                manifest_size([m EXCEPT !.layers = r]) = built[1].size

\* a FileSet was returned for a manifest with two layers of different sizes
C7_Witness ==
    /\ built # <<>>
    /\ LET m == HeldManifest(CalledAbs)
       IN  /\ Len(m.layers) = 2
           /\ m.layers[1].size # m.layers[2].size
           /\ built[1].size = m.config.size + m.layers[1].size + m.layers[2].size

----------------------------------------------------------------------------
(* C10 *)

\* the manifest lies at <root>/manifests/registry.ollama.ai/library/NAME/TAG
InStoreLayout(abs) ==
    LET c == Comps(abs)
    IN  Len(c) >= 5 /\ SubSeq(c, Len(c) - 4, Len(c) - 2) = LibraryDir

\* C10, as claimed: an existing manifest that does not lie five levels below a
\* store root is caught by the existence check: the build fails with NotFound
\* and returns no FileSet.
C10_MisplacedManifestFails ==
    (Called /\ HoldsManifest(CalledAbs) /\ ~InStoreLayout(CalledAbs)) =>
       /\ built = <<>>
       /\ error.exc = "KnownError"

\* C10, amended: for such a manifest the existence check fails exactly when a
\* blob is missing under <the root five levels up>/blobs, naming the first
\* missing blob and never the manifest; when every blob is there the build
\* returns a FileSet whose root is that unintended root.
C10_MisplacedManifestChecksBlobsOnly ==
    (Called /\ HoldsManifest(CalledAbs) /\ ~InStoreLayout(CalledAbs)) =>
       LET m == HeldManifest(CalledAbs)
           gone == SpecMissing(CalledAbs, m)
       IN  /\ 1 \notin gone
           /\ gone # {} =>
                /\ built = <<>>
                /\ error = Raised("KnownError", "File not found", <<>>,
                                  SpecAbs(CalledAbs, m, Least(gone)))
                /\ error.path # CalledAbs
           /\ gone = {} =>
                /\ built # <<>>
                /\ error = NoError
                /\ built[1].root = SpecUp(CalledAbs, 5)

\* a manifest outside any store layout was built into a FileSet rooted at /
C10_Witness ==
    /\ built # <<>>
    /\ ~InStoreLayout(CalledAbs)
    /\ built[1].root = <<"/">>
    /\ Len(built[1].files) >= 3

----------------------------------------------------------------------------
(* C3 *)

\* the manifest lies at store/manifests/registry.ollama.ai/library/NAME/TAG
LiesInStore(abs, store) ==
    /\ InStoreLayout(abs)
    /\ Len(Comps(abs)) = Len(Comps(store)) + 5
    /\ SubSeq(Comps(abs), 1, Len(Comps(store))) = Comps(store)

\* C3: the root of every FileSet is the directory five levels above the
\* manifest's absolute path, whatever models_dir is: a manifest at
\* R/manifests/registry.ollama.ai/library/NAME/TAG has root R.
C3_RootFromManifestPathAlone ==
    \A k \in 1..Len(built) :
       LET abs == abspath(manifests[k])
       IN  /\ built[k].root = SpecUp(abs, 5)
           /\ \A store \in {StoreS, StoreT} :
                 LiesInStore(abs, store) => built[k].root = store

\* a FileSet rooted in store T was built while models_dir was store S
C3_Witness ==
    /\ models_dir = StoreS
    /\ \E k \in 1..Len(built) : built[k].root = StoreT /\ LiesInStore(abspath(manifests[k]), StoreT)

----------------------------------------------------------------------------
(* C4 *)

\* the places of ':' that split v into a name and a tag, each an alphanumeric
\* followed by any of [A-Za-z0-9._-]
SpecSplits(v) ==
    {k \in 1..Len(v) :
       /\ v[k] = ":"
       /\ k > 1 /\ k < Len(v)
       /\ v[1] \in AlnumStart /\ v[k + 1] \in AlnumStart
       /\ \A j \in (1..Len(v)) \ {k} : v[j] \in InClass}

IsNameTag(v) == SpecSplits(v) # {}

\* storeRoot/manifests/registry.ollama.ai/library/<name>/<tag>
SpecManifestPath(dir, v) ==
    LET k == Least(SpecSplits(v))
    IN  dir \o <<"/", "manifests", "/", "registry.ollama.ai", "/", "library", "/">>
            \o SubSeq(v, 1, k - 1) \o <<"/">> \o SubSeq(v, k + 1, Len(v))

\* resolve_manifests raised: the invocation failed before it returned a list
ResolveFailed == pc = "failed" /\ manifests = <<>>

\* C4: a value of the form name:tag is always resolved as a reference and
\* never looked up as a path, also when a file of that name exists: it yields
\* models_dir/manifests/registry.ollama.ai/library/<name>/<tag> when that is a
\* file and otherwise fails naming the reference and that path; only a value
\* not of that form is looked up as a literal path.
C4_PatternTakesPrecedence ==
    /\ \A k \in 1..Len(yielded) :
          /\ IsNameTag(values[k]) =>
                /\ yielded[k] = SpecManifestPath(models_dir, values[k])
                /\ Comps(yielded[k]) \in disk
          /\ yielded[k] = values[k] => ~IsNameTag(values[k])
    /\ ResolveFailed =>
          /\ IsNameTag(values[pos]) =>
                /\ error = Raised("KnownError", "manifest's not found", values[pos],
                                  SpecManifestPath(models_dir, values[pos]))
                /\ Comps(SpecManifestPath(models_dir, values[pos])) \notin disk
          /\ (error.msg = "File not found" /\ error.path = values[pos]) =>
                ~IsNameTag(values[pos])

\* a file named a:b exists in the working directory and the value a:b was
\* resolved to the manifest in the store
C4_Witness ==
    /\ Comps(LiteralAB) \in disk
    /\ Len(yielded) >= 1
    /\ values[1] = <<"a", ":", "b">>
    /\ yielded[1] = ManifestIn(models_dir)

----------------------------------------------------------------------------
(* C5 *)

\* the path a value stands for
SpecCandidate(v) ==
    IF is_model(v)
      THEN LET g == CHOOSE x \in model_pattern_match(v) : TRUE
           IN  joinAll(models_dir, LibraryDir \o <<g.name, g.tag>>)
    ELSE v

\* the places of the values that cannot be resolved
Unresolvable == {k \in 1..Len(values) : ~isfile(SpecCandidate(values[k]))}

\* C5: when every value resolves, resolve_manifests returns one path per value
\* in input order; when one does not, it raises the error of the first such
\* value, the values after it are not looked at, and no list is returned.
C5_AllOrNothingInOrder ==
    LET bad == Unresolvable
    IN  /\ manifests # <<>> =>
              /\ bad = {}
              /\ Len(manifests) = Len(values)
              /\ \A k \in 1..Len(values) : manifests[k] = SpecCandidate(values[k])
        /\ bad = {} => ~ResolveFailed
        /\ bad # {} =>
              LET first == Least(bad)
              IN  /\ manifests = <<>>
                  /\ pc \in {"resolve", "failed"}
                  /\ pos <= first
                  /\ Len(yielded) = pos - 1
                  /\ pc = "failed" =>
                        /\ pos = first
                        /\ error.exc = "KnownError"
                        /\ error.msg \in {"manifest's not found", "File not found"}
                        /\ error.path = SpecCandidate(values[pos])

\* the second of two values failed after the first had been yielded, and the
\* caller got no list
C5_Witness ==
    /\ ResolveFailed
    /\ Len(values) = 2
    /\ Len(yielded) = 1
    /\ pos = 2

----------------------------------------------------------------------------
(* C6 *)

Roots == {manifests_data[k].root : k \in 1..Len(manifests_data)}

ConfigurationError ==
    Raised("KnownError", "All manifests must be in the same OLLAMA_MODELS directory.",
           <<>>, <<>>)

\* C6: list fails with the single-root error, having printed nothing, whenever
\* the FileSets do not have exactly one root, and prints only when they have;
\* copy, tar and zip never raise it and emit every FileSet against its own root.
C6_SingleRootGuardOnListOnly ==
    /\ error = ConfigurationError =>
          command = "list" /\ out = <<>> /\ Cardinality(Roots) # 1
    /\ (command = "list" /\ manifests_data # <<>> /\ Cardinality(Roots) # 1) =>
          /\ out = <<>>
          /\ pc = "check" \/ (pc = "failed" /\ error = ConfigurationError)
    /\ (command = "list" /\ out # <<>>) => Cardinality(Roots) = 1
    /\ (command # "list" /\ manifests_data # <<>>) =>
          /\ pc # "failed"
          /\ pc = "done" =>
                \A k \in 1..Len(manifests_data) :
                   \A file \in {manifests_data[k].files[l] :
                                  l \in 1..Len(manifests_data[k].files)} :
                      \E n \in 1..Len(out) :
                         /\ out[n].name = file
                         /\ out[n].src = join(manifests_data[k].root, file)

\* copy ran to the end over FileSets of two different roots
C6_Witness ==
    /\ command = "copy"
    /\ pc = "done"
    /\ Cardinality(Roots) = 2
    /\ \E n \in 1..Len(out) : out[n].src = join(StoreT, out[n].name)
    /\ \E n \in 1..Len(out) : out[n].src = join(StoreS, out[n].name)

----------------------------------------------------------------------------
(* C8 *)

\* the files lists of the FileSets, one after the other, each with its root
RECURSIVE SpecPairs(_)
SpecPairs(data) ==
    IF data = <<>> THEN <<>>
    ELSE [l \in 1..Len(data[1].files) |-> [root |-> data[1].root, name |-> data[1].files[l]]]
           \o SpecPairs(Tail(data))

SpecOp == IF command = "list" THEN "print" ELSE command

\* C8: every command performs one output action per (FileSet, file) pair, in
\* FileSet order and file order, nothing left out and nothing merged: what has
\* been emitted is always a prefix of the concatenated files lists, and all of
\* it once the command has returned.
C8_OneActionPerPairInOrder ==
    LET pairs == SpecPairs(manifests_data)
    IN  /\ Len(out) <= Len(pairs)
        /\ \A n \in 1..Len(out) :
              /\ out[n].name = pairs[n].name
              /\ out[n].op = SpecOp
              /\ command # "list" => out[n].src = join(pairs[n].root, pairs[n].name)
        /\ pc = "done" => Len(out) = Len(pairs)

\* zip returned having written the same blob of the same store twice
C8_Witness ==
    /\ command = "zip"
    /\ pc = "done"
    /\ \E x, y \in 1..Len(out) :
          /\ x < y
          /\ out[x].src = out[y].src
          /\ out[x].name = <<"blobs", "/", "s", "-", "a">>
          /\ out[y].name = out[x].name

----------------------------------------------------------------------------
(* C9 *)

\* the resolved manifests whose file set is not wholly on disk
Invalid ==
    {k \in 1..Len(manifests) :
       /\ HoldsManifest(abspath(manifests[k]))
       /\ SpecMissing(abspath(manifests[k]), HeldManifest(abspath(manifests[k]))) # {}}

\* C9: in copy, tar and zip every reference is resolved and every FileSet is
\* built and checked before the first output action: when a reference does not
\* resolve or a FileSet fails the check, nothing is created, copied, opened or
\* written, and the invocation ends with the NotFound error.
C9_NothingWrittenBeforeAllChecked ==
    command \in {"copy", "tar", "zip"} =>
      LET bad == Unresolvable
          invalid == Invalid
      IN  /\ (out # <<>> \/ archive # "none") =>
                /\ Len(manifests) = Len(values)
                /\ Len(manifests_data) = Len(values)
                /\ bad = {}
                /\ invalid = {}
                /\ \A k \in 1..Len(manifests) : HoldsManifest(abspath(manifests[k]))
          /\ (out = <<>> /\ archive = "none") \/ (bad = {} /\ invalid = {})
          /\ pc = "done" => (bad = {} /\ invalid = {})
          /\ pc = "failed" =>
                /\ out = <<>>
                /\ archive = "none"
                /\ error.exc = "KnownError" =>
                      error.msg \in {"manifest's not found", "File not found"}
                /\ error.exc # "KnownError" =>
                      \E k \in 1..Len(manifests) : ~HoldsManifest(abspath(manifests[k]))

\* tar failed on the second FileSet's check after the first had been built:
\* no archive was opened and nothing was written
C9_Witness ==
    /\ command = "tar"
    /\ pc = "failed"
    /\ Len(built) = 1
    /\ Len(manifests) = 2
    /\ error.msg = "File not found"
    /\ archive = "none"
    /\ out = <<>>

====
